---- MODULE Spec2Model ----
(***************************************************************************)
(* Model of JsonFormatterApp.py (json-format-pyside6): the JSON value /    *)
(* display-tree logic of JsonFormatterWindow and the search / highlight    *)
(* logic of SearchPanel.                                                   *)
(*                                                                         *)
(* Text is a sequence of one-character strings.  The alphabet of the model *)
(* is  { } [ ] : , " \ space newline a b A 0..9  (plus the control         *)
(* characters that the escapes \b \f \n \r \t decode to).  The letters     *)
(* that start the literals true / false / null / NaN / Infinity, the sign, *)
(* the fraction and exponent marks and \u escapes are outside the          *)
(* alphabet, so the JSON values of the model are integers, strings, arrays *)
(* and objects.                                                            *)
(***************************************************************************)
EXTENDS Integers, Sequences, FiniteSets, TLC

(***************************************************************************)
(* Generic helpers on sequences.                                           *)
(***************************************************************************)
Min(a, b) == IF a < b THEN a ELSE b

Range(s) == { s[i] : i \in 1..Len(s) }

RECURSIVE Concat(_)
Concat(ss) == IF ss = <<>> THEN <<>> ELSE Head(ss) \o Concat(Tail(ss))

RECURSIVE Repeat(_, _)
Repeat(c, n) == IF n <= 0 THEN <<>> ELSE <<c>> \o Repeat(c, n - 1)

\* s.startswith(p)
StartsWith(s, p) == Len(s) >= Len(p) /\ SubSeq(s, 1, Len(p)) = p

(***************************************************************************)
(* JSON values (the Python objects json.loads builds).  An object is the   *)
(* ordered list of the (key, value) entries of the Python dict.            *)
(***************************************************************************)
JNum(n) == [t |-> "num", n |-> n]
JStr(s) == [t |-> "str", s |-> s]
JArr(a) == [t |-> "arr", a |-> a]
JObj(o) == [t |-> "obj", o |-> o]
Entry(k, v) == [k |-> k, v |-> v]

\* d[k] = v on a Python dict: an existing key keeps its place and takes the
\* new value, a new key goes last.
DictSet(d, k, v) ==
    IF \E i \in 1..Len(d) : d[i].k = k
    THEN [i \in 1..Len(d) |-> IF d[i].k = k THEN Entry(k, v) ELSE d[i]]
    ELSE Append(d, Entry(k, v))

\* dict(pairs)
RECURSIVE DictOf(_, _)
DictOf(pairs, d) ==
    IF pairs = <<>> THEN d
    ELSE DictOf(Tail(pairs), DictSet(d, Head(pairs).k, Head(pairs).v))

(***************************************************************************)
(* json.loads (json.decoder / json.scanner of the standard library), on    *)
(* the model's alphabet.  Positions are 1-based; a result is               *)
(* [ok, val, pos] with pos the index after the value.                      *)
(***************************************************************************)
Whitespace == {" ", "\n", "\t", "\r"}
Digits == {"0", "1", "2", "3", "4", "5", "6", "7", "8", "9"}
ControlChars == {"\n", "\t", "\r", "BS", "FF"}
DigitVal(c) == CASE c = "0" -> 0 [] c = "1" -> 1 [] c = "2" -> 2 [] c = "3" -> 3
                 [] c = "4" -> 4 [] c = "5" -> 5 [] c = "6" -> 6 [] c = "7" -> 7
                 [] c = "8" -> 8 [] c = "9" -> 9
DigitChar(d) == CASE d = 0 -> "0" [] d = 1 -> "1" [] d = 2 -> "2" [] d = 3 -> "3"
                  [] d = 4 -> "4" [] d = 5 -> "5" [] d = 6 -> "6" [] d = 7 -> "7"
                  [] d = 8 -> "8" [] d = 9 -> "9"

\* json.decoder.BACKSLASH
BACKSLASH == ("\"" :> "\"") @@ ("\\" :> "\\") @@ ("/" :> "/") @@ ("b" :> "BS")
             @@ ("f" :> "FF") @@ ("n" :> "\n") @@ ("r" :> "\r") @@ ("t" :> "\t")

Fail == [ok |-> FALSE]
Ok(v, p) == [ok |-> TRUE, val |-> v, pos |-> p]

RECURSIVE SkipWs(_, _)
SkipWs(s, i) == IF i <= Len(s) /\ s[i] \in Whitespace THEN SkipWs(s, i + 1) ELSE i

\* py_scanstring with strict=True; i is the index after the opening quote.
RECURSIVE scanstring(_, _, _)
scanstring(s, i, acc) ==
    IF i > Len(s) THEN Fail
    ELSE IF s[i] = "\"" THEN Ok(acc, i + 1)
    ELSE IF s[i] = "\\" THEN
        IF i + 1 > Len(s) \/ s[i + 1] \notin DOMAIN BACKSLASH THEN Fail
        ELSE scanstring(s, i + 2, Append(acc, BACKSLASH[s[i + 1]]))
    ELSE IF s[i] \in ControlChars THEN Fail
    ELSE scanstring(s, i + 1, Append(acc, s[i]))

\* NUMBER_RE restricted to integers without sign: 0 | [1-9][0-9]*
RECURSIVE scandigits(_, _, _)
scandigits(s, i, n) ==
    IF i <= Len(s) /\ s[i] \in Digits
    THEN scandigits(s, i + 1, 10 * n + DigitVal(s[i]))
    ELSE Ok(JNum(n), i)

scannumber(s, i) ==
    IF s[i] = "0" THEN Ok(JNum(0), i + 1) ELSE scandigits(s, i, 0)

RECURSIVE scan_once(_, _)
RECURSIVE JSONObjectPairs(_, _, _)
RECURSIVE JSONArrayItems(_, _, _)

\* JSONObject; i is the index after "{".
JSONObject(s, i) ==
    LET j == SkipWs(s, i) IN
    IF j > Len(s) THEN Fail
    ELSE IF s[j] = "}" THEN Ok(JObj(<<>>), j + 1)
    ELSE IF s[j] # "\"" THEN Fail
    ELSE JSONObjectPairs(s, j + 1, <<>>)

\* The loop of JSONObject; i is the index after the opening quote of a key.
JSONObjectPairs(s, i, pairs) ==
    LET k == scanstring(s, i, <<>>) IN
    IF ~k.ok THEN Fail ELSE
    LET c == SkipWs(s, k.pos) IN
    IF c > Len(s) \/ s[c] # ":" THEN Fail ELSE
    LET v == scan_once(s, SkipWs(s, c + 1)) IN
    IF ~v.ok THEN Fail ELSE
    LET e == SkipWs(s, v.pos)
        ps == Append(pairs, Entry(k.val, v.val)) IN
    IF e > Len(s) THEN Fail
    ELSE IF s[e] = "}" THEN Ok(JObj(DictOf(ps, <<>>)), e + 1)
    ELSE IF s[e] # "," THEN Fail
    ELSE LET q == SkipWs(s, e + 1) IN
         IF q > Len(s) \/ s[q] # "\"" THEN Fail
         ELSE JSONObjectPairs(s, q + 1, ps)

\* JSONArray; i is the index after "[".
JSONArray(s, i) ==
    LET j == SkipWs(s, i) IN
    IF j > Len(s) THEN Fail
    ELSE IF s[j] = "]" THEN Ok(JArr(<<>>), j + 1)
    ELSE JSONArrayItems(s, j, <<>>)

\* The loop of JSONArray; i is the index of the next element.
JSONArrayItems(s, i, items) ==
    LET v == scan_once(s, i) IN
    IF ~v.ok THEN Fail ELSE
    LET e == SkipWs(s, v.pos)
        xs == Append(items, v.val) IN
    IF e > Len(s) THEN Fail
    ELSE IF s[e] = "]" THEN Ok(JArr(xs), e + 1)
    ELSE IF s[e] # "," THEN Fail
    ELSE JSONArrayItems(s, SkipWs(s, e + 1), xs)

scan_once(s, i) ==
    IF i > Len(s) THEN Fail
    ELSE IF s[i] = "\"" THEN
        LET r == scanstring(s, i + 1, <<>>) IN
        IF r.ok THEN Ok(JStr(r.val), r.pos) ELSE Fail
    ELSE IF s[i] = "{" THEN JSONObject(s, i + 1)
    ELSE IF s[i] = "[" THEN JSONArray(s, i + 1)
    ELSE IF s[i] \in Digits THEN scannumber(s, i)
    ELSE Fail

\* json.loads: JSONDecoder.decode; ok = FALSE stands for JSONDecodeError.
loads(s) ==
    LET decode(r) ==
            IF r.ok /\ SkipWs(s, r.pos) = Len(s) + 1 THEN [ok |-> TRUE, val |-> r.val]
            ELSE Fail
    IN decode(scan_once(s, SkipWs(s, 1)))

(***************************************************************************)
(* json.dumps(..., ensure_ascii=False), with indent=4 (pretty) or with     *)
(* separators=(',', ':') (compact).                                        *)
(***************************************************************************)
Indent == 4

RECURSIVE IntToChars(_)
IntToChars(n) ==
    IF n < 10 THEN <<DigitChar(n)>>
    ELSE Append(IntToChars(n \div 10), DigitChar(n % 10))

\* json.encoder.ESCAPE_DCT
EscapeChar(c) ==
    CASE c = "\"" -> <<"\\", "\"">>
      [] c = "\\" -> <<"\\", "\\">>
      [] c = "\n" -> <<"\\", "n">>
      [] c = "\r" -> <<"\\", "r">>
      [] c = "\t" -> <<"\\", "t">>
      [] c = "BS" -> <<"\\", "b">>
      [] c = "FF" -> <<"\\", "f">>
      [] OTHER    -> <<c>>

\* py_encode_basestring
encode_basestring(s) ==
    <<"\"">> \o Concat([i \in 1..Len(s) |-> EscapeChar(s[i])]) \o <<"\"">>

\* Joins the pieces with sep between them.
RECURSIVE Join(_, _)
Join(ss, sep) ==
    IF ss = <<>> THEN <<>>
    ELSE IF Len(ss) = 1 THEN ss[1]
    ELSE ss[1] \o sep \o Join(Tail(ss), sep)

\* _make_iterencode: level is the current indent level (pretty only).
RECURSIVE iterencode(_, _, _)
iterencode(v, pretty, level) ==
    LET nl(l)   == IF pretty THEN <<"\n">> \o Repeat(" ", Indent * l) ELSE <<>>
        itemsep == <<",">> \o nl(level + 1)
        keysep  == IF pretty THEN <<":", " ">> ELSE <<":">>
    IN
    CASE v.t = "num" -> IntToChars(v.n)
      [] v.t = "str" -> encode_basestring(v.s)
      [] v.t = "arr" ->
            IF v.a = <<>> THEN <<"[", "]">>
            ELSE <<"[">> \o nl(level + 1)
                 \o Join([i \in 1..Len(v.a) |-> iterencode(v.a[i], pretty, level + 1)], itemsep)
                 \o nl(level) \o <<"]">>
      [] v.t = "obj" ->
            IF v.o = <<>> THEN <<"{", "}">>
            ELSE <<"{">> \o nl(level + 1)
                 \o Join([i \in 1..Len(v.o) |->
                            encode_basestring(v.o[i].k) \o keysep
                            \o iterencode(v.o[i].v, pretty, level + 1)], itemsep)
                 \o nl(level) \o <<"}">>

dumps_pretty(v) == iterencode(v, TRUE, 0)
dumps_compact(v) == iterencode(v, FALSE, 0)

(***************************************************************************)
(* JsonFormatterWindow.process_json.parse_nested: the in-place expansion   *)
(* of string values that are JSON text, as the value it returns.           *)
(***************************************************************************)
\* The body of both loops: a str value is replaced by json.loads of it when
\* that succeeds (and is not visited further); any other value is recursed
\* into.
RECURSIVE parse_nested(_)
parse_nested_value(v) ==
    IF v.t = "str"
    THEN LET replaced(r) == IF r.ok THEN r.val ELSE v IN replaced(loads(v.s))
    ELSE parse_nested(v)

parse_nested(obj) ==
    CASE obj.t = "obj" ->
            JObj([i \in 1..Len(obj.o) |-> Entry(obj.o[i].k, parse_nested_value(obj.o[i].v))])
      [] obj.t = "arr" ->
            JArr([i \in 1..Len(obj.a) |-> parse_nested_value(obj.a[i])])
      [] OTHER -> obj

(***************************************************************************)
(* The tree widget.  A QTreeWidgetItem is [text, data, children]: text is  *)
(* column 0, data the Qt.UserRole payload.  A key_name is None or a str.   *)
(***************************************************************************)
None == [none |-> TRUE]
Some(s) == [none |-> FALSE, s |-> s]
\* Python truth value of a key_name
Truthy(k) == ~k.none /\ k.s # <<>>

\* str(data) of a scalar
Str(v) == IF v.t = "num" THEN IntToChars(v.n) ELSE v.s

\* f"[{i}]" for the 0-based index i
IndexLabel(i) == <<"[">> \o IntToChars(i) \o <<"]">>

TupleData(k, v) == [tuple |-> TRUE, key |-> k, value |-> v]
PlainData(v) == [tuple |-> FALSE, value |-> v]
Item(text, data, children) == [text |-> text, data |-> data, children |-> children]

\* JsonFormatterWindow.populate_tree: the item built for data under key_name.
RECURSIVE populate_tree(_, _)
populate_tree(data, key_name) ==
    CASE data.t = "obj" ->
            Item(IF Truthy(key_name) THEN key_name.s ELSE <<>>, PlainData(data),
                 [i \in 1..Len(data.o) |-> populate_tree(data.o[i].v, Some(data.o[i].k))])
      [] data.t = "arr" ->
            Item(IF Truthy(key_name) THEN key_name.s ELSE <<>>, PlainData(data),
                 [i \in 1..Len(data.a) |-> populate_tree(data.a[i], Some(IndexLabel(i - 1)))])
      [] OTHER ->
            Item(IF Truthy(key_name) THEN key_name.s \o <<":", " ">> \o Str(data) ELSE Str(data),
                 TupleData(key_name, data), <<>>)

\* text.split(":", 1)[0] if ":" in text else text
RECURSIVE SplitKey(_)
SplitKey(text) ==
    IF text = <<>> \/ Head(text) = ":" THEN <<>>
    ELSE <<Head(text)>> \o SplitKey(Tail(text))

\* The dict branch of item_to_json, folded over the (key, value) of the
\* children in order.
RECURSIVE AssembleDict(_, _, _)
AssembleDict(keys, values, result) ==
    IF keys = <<>> THEN result
    ELSE LET key == Head(keys)
             value == Head(values)
             unwrapped == IF value.t = "obj" /\ Len(value.o) = 1 /\ value.o[1].k = key
                          THEN value.o[1].v ELSE value
         IN AssembleDict(Tail(keys), Tail(values), DictSet(result, key, unwrapped))

\* JsonFormatterWindow.on_tree_item_clicked.item_to_json
RECURSIVE item_to_json(_)
item_to_json(it) ==
    LET child_count == Len(it.children) IN
    IF child_count = 0 THEN
        IF it.data.tuple
        THEN IF Truthy(it.data.key)
             THEN JObj(<<Entry(it.data.key.s, it.data.value)>>)
             ELSE it.data.value
        ELSE it.data.value
    ELSE
        LET is_list == \A i \in 1..child_count : StartsWith(it.children[i].text, <<"[">>) IN
        IF is_list
        THEN JArr([i \in 1..child_count |-> item_to_json(it.children[i])])
        ELSE JObj(AssembleDict([i \in 1..child_count |-> SplitKey(it.children[i].text)],
                               [i \in 1..child_count |-> item_to_json(it.children[i])],
                               <<>>))

(***************************************************************************)
(* Search: QTextDocument.find as SearchPanel calls it (no FindFlags), and  *)
(* the extra selections of an editor.  Offsets are 0-based document        *)
(* positions, as QTextCursor.selectionStart() returns them.                *)
(***************************************************************************)
\* Qt.CaseInsensitive folding on the letters of the alphabet
Fold(c) == IF c = "A" THEN "a" ELSE c
FoldSeq(s) == [i \in 1..Len(s) |-> Fold(s[i])]

\* keyword occurs in text at offset p, compared the way find (called without
\* FindCaseSensitively) compares.
FoundAt(text, keyword, p) ==
    /\ p + Len(keyword) <= Len(text)
    /\ FoldSeq(SubSeq(text, p + 1, p + Len(keyword))) = FoldSeq(keyword)

\* doc.find(keyword, cursor) for a cursor whose selection ends at from: the
\* start of the first occurrence at or after from, -1 for a null cursor.
RECURSIVE doc_find(_, _, _)
doc_find(text, keyword, from) ==
    IF keyword = <<>> \/ from + Len(keyword) > Len(text) THEN -1
    ELSE IF FoundAt(text, keyword, from) THEN from
    ELSE doc_find(text, keyword, from + 1)

\* The "while True: found = doc.find(text, cursor)" loop: the next search
\* starts at the end of the selection of the previous result.
RECURSIVE find_loop(_, _, _)
find_loop(text, keyword, from) ==
    LET p == doc_find(text, keyword, from) IN
    IF p = -1 THEN <<>>
    ELSE <<p>> \o find_loop(text, keyword, p + Len(keyword))

\* A QTextEdit.ExtraSelection: kind "line" is a FullWidthSelection on an empty
\* selection, "all" the green match background, "cur" the red current match.
Sel(kind, start, len) == [kind |-> kind, start |-> start, len |-> len]

\* CodeEditor.highlight_current_line on the (not read-only) input editor
highlight_current_line(cursor) == <<Sel("line", cursor, 0)>>

\* highlight_search without the CodeEditor branch for an empty keyword.
highlight_search_no_line(key, keyword, text, cursor) ==
    IF keyword = <<>>
    THEN <<>>
    ELSE LET ms == find_loop(text, keyword, 0) IN
         [i \in 1..Len(ms) |-> Sel("all", ms[i], Len(keyword))]

\* SearchPanel.highlight_search(keyword) with current_pos = None: the extra
\* selections it leaves on the editor of panel key.
highlight_search(key, keyword, text, cursor) ==
    IF keyword = <<>>
    THEN IF key = "input" THEN highlight_current_line(cursor) ELSE <<>>
    ELSE LET ms == find_loop(text, keyword, 0) IN
         [i \in 1..Len(ms) |-> Sel("all", ms[i], Len(keyword))]

\* QTextCursor(doc).setPosition(pos): a position out of range is refused and
\* the cursor stays where it was.
setPosition(text, old, pos) == IF pos <= Len(text) THEN pos ELSE old

\* SearchPanel.goto(idx) on a panel with matches ms: the index, the extra
\* selections of the editor and the position of its text cursor afterwards.
\* On the input editor setTextCursor emits cursorPositionChanged when the
\* position changes, and highlight_current_line then replaces the list.
goto(key, idx, ms, keyword, text, cursor) ==
    LET current_pos == ms[idx + 1]
        length      == Len(keyword)
        all         == find_loop(text, keyword, 0)
        line_pos    == setPosition(text, 0, current_pos)
        cur_start   == setPosition(text, 0, current_pos)
        cur_end     == Min(cur_start + length, Len(text))
        extra_list  == <<Sel("line", line_pos, 0)>>
                       \o [i \in 1..Len(all) |-> Sel("all", all[i], length)]
                       \o <<Sel("cur", cur_start, cur_end - cur_start)>>
        new_cursor  == setPosition(text, cursor, current_pos)
    IN [index  |-> idx,
        cursor |-> new_cursor,
        extra  |-> IF key = "input" /\ new_cursor # cursor
                   THEN highlight_current_line(new_cursor)
                   ELSE extra_list]

\* do_search without "self.index = 0": the index is left where it was.
do_search_keeps_index(key, keyword, text, cursor, old_index) ==
    LET hl == highlight_search(key, keyword, text, cursor)
        ms == IF keyword = <<>> THEN <<>> ELSE find_loop(text, keyword, 0)
    IN IF keyword = <<>>
       THEN [matches |-> <<>>, index |-> old_index, cursor |-> cursor, extra |-> hl]
       ELSE IF ms = <<>>
       THEN [matches |-> ms, index |-> old_index, cursor |-> cursor, extra |-> hl]
       ELSE LET first(g) ==
                    [matches |-> ms, index |-> old_index, cursor |-> g.cursor, extra |-> g.extra]
            IN first(goto(key, 0, ms, keyword, text, cursor))

\* SearchPanel.do_search: the panel's matches and index and the editor's extra
\* selections and cursor after the pattern field changed to keyword.
do_search(key, keyword, text, cursor, old_index) ==
    LET hl == highlight_search(key, keyword, text, cursor)
        ms == IF keyword = <<>> THEN <<>> ELSE find_loop(text, keyword, 0)
    IN IF keyword = <<>>
       THEN [matches |-> <<>>, index |-> old_index, cursor |-> cursor, extra |-> hl]
       ELSE IF ms = <<>>
       THEN [matches |-> ms, index |-> 0, cursor |-> cursor, extra |-> hl]
       ELSE LET first(g) ==
                    [matches |-> ms, index |-> g.index, cursor |-> g.cursor, extra |-> g.extra]
            IN first(goto(key, 0, ms, keyword, text, cursor))

\* SearchPanel.next_match / prev_match: the index handed to goto
next_index(idx, n) == (idx + 1) % n
prev_index(idx, n) == (idx - 1) % n

\* QTextDocument.setPlainText on a document that extra selections point
\* into: clearing the document moves every cursor to 0 and the insertion at 0
\* carries them to the end of the new text, with empty selections.
collapse(sels, n) == [i \in 1..Len(sels) |-> Sel(sels[i].kind, n, 0)]

(***************************************************************************)
(* JsonFormatterWindow handlers, as functions of the widgets' contents.    *)
(***************************************************************************)
StripChars == {" ", "\n", "\t", "\r", "FF"}

\* str.strip()
RECURSIVE lstrip(_)
lstrip(s) == IF s # <<>> /\ Head(s) \in StripChars THEN lstrip(Tail(s)) ELSE s
RECURSIVE rstrip(_)
rstrip(s) == IF s # <<>> /\ s[Len(s)] \in StripChars THEN rstrip(SubSeq(s, 1, Len(s) - 1)) ELSE s
strip(s) == rstrip(lstrip(s))

\* process_json that raises the dialog and keeps the views whenever json.loads
\* fails, whatever show_error_dialog says.
process_json_always_dialog(text, show_error_dialog, tree, out, out_extra, out_cursor) ==
    IF text = <<>>
    THEN [tree |-> <<>>, out |-> <<>>, extra |-> collapse(out_extra, 0),
          cursor |-> 0, dialog |-> FALSE]
    ELSE LET shown(data, json_text) ==
                 [tree |-> <<populate_tree(data, None)>>, out |-> json_text,
                  extra |-> collapse(out_extra, Len(json_text)), cursor |-> 0,
                  dialog |-> FALSE]
             parsed(data) == shown(data, dumps_pretty(data))
             loaded(r) ==
                 IF r.ok
                 THEN parsed(parse_nested(r.val))
                 ELSE [tree |-> tree, out |-> out, extra |-> out_extra, cursor |-> out_cursor,
                  dialog |-> TRUE]
         IN loaded(loads(text))

\* process_json(text, show_error_dialog): the tree (the list of top-level
\* items), the result text, the result view's extra selections and text
\* cursor (setPlainText puts it at the start) and whether a QMessageBox was
\* raised.
process_json(text, show_error_dialog, tree, out, out_extra, out_cursor) ==
    IF text = <<>>
    THEN [tree |-> <<>>, out |-> <<>>, extra |-> collapse(out_extra, 0),
          cursor |-> 0, dialog |-> FALSE]
    ELSE LET shown(data, json_text) ==
                 [tree |-> <<populate_tree(data, None)>>, out |-> json_text,
                  extra |-> collapse(out_extra, Len(json_text)), cursor |-> 0,
                  dialog |-> FALSE]
             parsed(data) == shown(data, dumps_pretty(data))
             loaded(r) ==
                 IF r.ok
                 THEN parsed(parse_nested(r.val))
                 ELSE IF show_error_dialog
                      THEN [tree |-> tree, out |-> out, extra |-> out_extra, cursor |-> out_cursor,
                  dialog |-> TRUE]
                      ELSE [tree |-> <<>>, out |-> <<>>, extra |-> collapse(out_extra, 0),
                            cursor |-> 0, dialog |-> FALSE]
         IN loaded(loads(text))

\* compress_json on the stripped input text
compress_json(text, tree, out, out_extra, out_cursor) ==
    IF text = <<>>
    THEN [tree |-> tree, out |-> out, extra |-> out_extra, cursor |-> out_cursor,
          dialog |-> FALSE]
    ELSE LET shown(compressed) ==
                 [tree |-> <<populate_tree(loads(compressed).val, None)>>, out |-> compressed,
                  extra |-> collapse(out_extra, Len(compressed)), cursor |-> 0,
                  dialog |-> FALSE]
             loaded(r) ==
                 IF r.ok
                 THEN shown(dumps_compact(r.val))
                 ELSE [tree |-> tree, out |-> out, extra |-> out_extra, cursor |-> out_cursor,
                  dialog |-> TRUE]
         IN loaded(loads(text))

\* open_file that empties the input editor when reading the file fails.
open_file_clears_on_fail(outcome, text) ==
    IF outcome = "ok" THEN [set |-> TRUE, text |-> text, dialog |-> FALSE]
    ELSE IF outcome = "fail" THEN [set |-> TRUE, text |-> <<>>, dialog |-> TRUE]
    ELSE [set |-> FALSE, text |-> <<>>, dialog |-> FALSE]

\* open_file: the text that reaches input_edit.setPlainText, if any.  outcome
\* is "cancel" (no file chosen), "fail" (open / read / decode raised) or "ok".
open_file(outcome, text) ==
    IF outcome = "ok" THEN [set |-> TRUE, text |-> text, dialog |-> FALSE]
    ELSE [set |-> FALSE, text |-> <<>>, dialog |-> outcome = "fail"]

\* The items of the tree, as paths of child indexes from a top-level item.
RECURSIVE ItemPaths(_)
ItemPaths(it) ==
    {<<>>} \cup UNION { { <<i>> \o p : p \in ItemPaths(it.children[i]) } : i \in 1..Len(it.children) }

RECURSIVE ItemAt(_, _)
ItemAt(it, path) == IF path = <<>> THEN it ELSE ItemAt(it.children[Head(path)], Tail(path))

(***************************************************************************)
(* Inputs of the model.                                                    *)
(***************************************************************************)
Q == "\""
B == "\\"

\* Texts the user types, pastes or opens, for the value / tree pipeline.
InputTexts == {
    <<>>,
    <<" ">>,
    <<"a", "b", "a", "b", "a", "b">>,
    <<"{", Q, "a", Q, ":", "}">>,
    <<"1">>,
    <<" ", "[", "1", ",", "2", "]">>,
    <<"[", Q, "A", "a", Q, "]">>,
    <<"[", "[", "]", ",", "{", "}", "]">>,
    <<"{", Q, "a", Q, ":", "1", "}">>,
    <<"{", Q, Q, ":", "1", "}">>,
    <<"{", Q, "[", "a", Q, ":", "1", "}">>,
    <<"{", Q, "a", ":", "b", Q, ":", "1", "}">>,
    <<"{", Q, "a", Q, ":", "{", Q, "a", Q, ":", "1", "}", "}">>,
    <<"{", Q, "a", Q, ":", "{", Q, "b", Q, ":", "1", ",", Q, "a", Q, ":", "2", "}", "}">>,
    <<"{", Q, "a", Q, ":", Q, "[", "1", "]", Q, "}">>,
    <<"{", Q, "a", Q, ":", Q, "a", Q, ",", Q, "b", Q, ":", "[", Q, "1", Q, "]", "}">>,
    <<"[", Q, "[", B, Q, "1", B, Q, "]", Q, "]">> }

\* Texts of the input buffer while the search panels are in use.
SearchedTexts == {
    <<>>,
    <<"a", "b", "a", "b", "a", "b">>,
    <<"[", Q, "A", "a", Q, "]">> }

\* Texts of the pattern field (a QLineEdit holds no newline).
Patterns == { <<>>, <<"a">>, <<"a", "b", "a">> }

Keys == {"input", "output"}

(***************************************************************************)
(* State.                                                                  *)
(***************************************************************************)
VARIABLES
    input_text,     \* input_edit.toPlainText()
    input_cursor,   \* input_edit.textCursor().position()
    output_tree,    \* top-level items of output_tree
    output_text,    \* output_edit.toPlainText()
    output_cursor,  \* output_edit.textCursor().position()
    search_text,    \* search_panels[key].search_edit.text()
    matches,        \* search_panels[key].matches
    index,          \* search_panels[key].index
    extra,          \* extraSelections() of the editor of search_panels[key]
    last            \* history: the handler that ran last, the panel it ran on
                    \* and whether it raised a QMessageBox

vars == <<input_text, input_cursor, output_tree, output_text, output_cursor, search_text,
          matches, index, extra, last>>

Done(op, key, dialog) == [op |-> op, key |-> key, dialog |-> dialog]

\* The text of the editor a panel searches
Buffer(key) == IF key = "input" THEN input_text ELSE output_text

Init ==
    /\ input_text = <<>>
    /\ input_cursor = 0
    /\ output_tree = <<>>
    /\ output_text = <<>>
    /\ output_cursor = 0
    /\ search_text = [k \in Keys |-> <<>>]
    /\ matches = [k \in Keys |-> <<>>]
    /\ index = [k \in Keys |-> 0]
    /\ extra = [k \in Keys |-> IF k = "input" THEN highlight_current_line(0) ELSE <<>>]
    /\ last = Done("init", "", FALSE)

\* input_edit.textChanged -> auto_format_input, with the input editor already
\* holding text and its cursor at cursor (cursorPositionChanged ->
\* highlight_current_line has run).
InputChanged(text, cursor, op) ==
    \E r \in {process_json(strip(text), FALSE, output_tree, output_text, extra["output"],
                            output_cursor)} :
    /\ input_text' = text
    /\ input_cursor' = cursor
    /\ output_tree' = r.tree
    /\ output_text' = r.out
    /\ output_cursor' = r.cursor
    /\ extra' = [k \in Keys |-> IF k = "input" THEN highlight_current_line(cursor) ELSE r.extra]
    /\ last' = Done(op, "", r.dialog)
    /\ UNCHANGED <<search_text, matches, index>>

\* The user edits the input buffer (types, pastes, deletes) into one of
\* texts; the cursor ends after the edit.
EditInputTo(texts) ==
    \E text \in texts :
        /\ text # input_text
        /\ InputChanged(text, Len(text), "auto_format_input")

\* The user moves the cursor of the input editor:
\* cursorPositionChanged -> highlight_current_line.
MoveCursor ==
    \E pos \in {0, Len(input_text)} :
        /\ pos # input_cursor
        /\ input_cursor' = pos
        /\ extra' = [extra EXCEPT !["input"] = highlight_current_line(pos)]
        /\ last' = Done("highlight_current_line", "input", FALSE)
        /\ UNCHANGED <<input_text, output_tree, output_text, output_cursor, search_text,
                       matches, index>>

\* The user clicks into the read-only result view: its text cursor moves and
\* no handler runs (output_edit is a plain QTextEdit with no
\* cursorPositionChanged connection).
MoveOutputCursor ==
    \E pos \in {0, Len(output_text)} :
        /\ pos # output_cursor
        /\ output_cursor' = pos
        /\ last' = Done("output_cursor_moved", "output", FALSE)
        /\ UNCHANGED <<input_text, input_cursor, output_tree, output_text, search_text,
                       matches, index, extra>>

\* Menu action "open file" on a file holding one of texts.  setPlainText
\* puts the cursor at the start and emits textChanged.
OpenFileOf(texts) ==
    \E outcome \in {"cancel", "fail", "ok"}, text \in texts :
        LET o  == open_file(outcome, text)
            op == CASE outcome = "ok" -> "open_file_ok"
                    [] outcome = "fail" -> "open_file_fail"
                    [] OTHER -> "open_file_cancel"
        IN
        IF o.set
        THEN InputChanged(o.text, 0, op)
        ELSE /\ text = input_text
             /\ last' = Done(op, "", o.dialog)
             /\ UNCHANGED <<input_text, input_cursor, output_tree, output_text,
                            output_cursor, search_text, matches, index, extra>>

\* Button "format"
FormatJson ==
    \E r \in {process_json(strip(input_text), TRUE, output_tree, output_text, extra["output"],
                            output_cursor)} :
    /\ output_tree' = r.tree
    /\ output_text' = r.out
    /\ output_cursor' = r.cursor
    /\ extra' = [extra EXCEPT !["output"] = r.extra]
    /\ last' = Done("format_json", "", r.dialog)
    /\ UNCHANGED <<input_text, input_cursor, search_text, matches, index>>

\* Button "compress"
CompressJson ==
    \E r \in {compress_json(strip(input_text), output_tree, output_text, extra["output"],
                             output_cursor)} :
    /\ output_tree' = r.tree
    /\ output_text' = r.out
    /\ output_cursor' = r.cursor
    /\ extra' = [extra EXCEPT !["output"] = r.extra]
    /\ last' = Done("compress_json", "", r.dialog)
    /\ UNCHANGED <<input_text, input_cursor, search_text, matches, index>>

\* on_tree_item_clicked(item): json.dumps of item_to_json(item) goes to the
\* result view.  (item_to_json raises on no tree populate_tree builds, so the
\* except branch is not taken.)
TreeItemClicked ==
    /\ output_tree # <<>>
    /\ \E path \in ItemPaths(output_tree[1]) :
        \E json_text \in {dumps_pretty(item_to_json(ItemAt(output_tree[1], path)))} :
        /\ output_text' = json_text
        /\ output_cursor' = 0
        /\ extra' = [extra EXCEPT !["output"] = collapse(@, Len(json_text))]
        /\ last' = Done("on_tree_item_clicked", "", FALSE)
        /\ UNCHANGED <<input_text, input_cursor, output_tree, search_text, matches, index>>

\* The close button of a panel, or Escape in its pattern field (eventFilter
\* clicks the button): btn_close.clicked is connected to QWidget.hide, which
\* touches neither the panel's fields nor the editor.  (Whether a panel is
\* shown is not part of the state: open_search can always show it again.)
CloseSearch ==
    \E key \in Keys :
        /\ last' = Done("close", key, FALSE)
        /\ UNCHANGED <<input_text, input_cursor, output_tree, output_text, output_cursor,
                       search_text, matches, index, extra>>

\* The position of the text cursor of the editor of panel key
CursorOf(key) == IF key = "input" THEN input_cursor ELSE output_cursor

\* The cursor of the editor of panel of after a handler of panel key left the
\* cursor of its own editor at c.
CursorAfter(key, of, c) == IF key = of THEN c ELSE CursorOf(of)

\* The user changes the pattern field of a panel:
\* search_edit.textChanged -> do_search.
SearchTextChanged ==
    \E key \in Keys, keyword \in Patterns :
        /\ keyword # search_text[key]
        /\ \E r \in {do_search(key, keyword, Buffer(key), CursorOf(key), index[key])} :
            /\ search_text' = [search_text EXCEPT ![key] = keyword]
            /\ matches' = [matches EXCEPT ![key] = r.matches]
            /\ index' = [index EXCEPT ![key] = r.index]
            /\ extra' = [extra EXCEPT ![key] = r.extra]
            /\ input_cursor' = CursorAfter(key, "input", r.cursor)
            /\ output_cursor' = CursorAfter(key, "output", r.cursor)
            /\ last' = Done("do_search", key, FALSE)
        /\ UNCHANGED <<input_text, output_tree, output_text>>

\* A navigation handler of panel key that hands new_idx to goto; it returns
\* at once when matches is empty.
Navigate(key, op, new_idx) ==
    /\ IF matches[key] = <<>>
       THEN UNCHANGED <<index, extra, input_cursor, output_cursor>>
       ELSE \E g \in {goto(key, new_idx, matches[key], search_text[key], Buffer(key),
                          CursorOf(key))} :
            /\ index' = [index EXCEPT ![key] = g.index]
            /\ extra' = [extra EXCEPT ![key] = g.extra]
            /\ input_cursor' = CursorAfter(key, "input", g.cursor)
            /\ output_cursor' = CursorAfter(key, "output", g.cursor)
    /\ last' = Done(op, key, FALSE)
    /\ UNCHANGED <<input_text, output_tree, output_text, search_text, matches>>

\* next_match: the arrow button or Return in the pattern field of a panel,
\* or F3 (next_match_current) with the focus in the panel's editor.
NextMatch ==
    \E key \in Keys :
        Navigate(key, "next_match",
                 IF matches[key] = <<>> THEN 0 ELSE next_index(index[key], Len(matches[key])))

\* prev_match: the arrow button, or Shift+F3 (prev_match_current).
PrevMatch ==
    \E key \in Keys :
        Navigate(key, "prev_match",
                 IF matches[key] = <<>> THEN 0 ELSE prev_index(index[key], Len(matches[key])))

EditInput == EditInputTo(SearchedTexts)
OpenFile == OpenFileOf(SearchedTexts)

\* The whole window, with the input buffer ranging over SearchedTexts.
Next ==
    \/ EditInput
    \/ MoveCursor
    \/ MoveOutputCursor
    \/ OpenFile
    \/ FormatJson
    \/ CompressJson
    \/ TreeItemClicked
    \/ CloseSearch
    \/ SearchTextChanged
    \/ NextMatch
    \/ PrevMatch

Spec == Init /\ [][Next]_vars

EditJson == EditInputTo(InputTexts)
OpenJsonFile == OpenFileOf(InputTexts)

\* The value / tree pipeline of the window, with the input buffer ranging
\* over InputTexts and the search panels left closed.
NextJson ==
    \/ EditJson
    \/ MoveCursor
    \/ MoveOutputCursor
    \/ OpenJsonFile
    \/ FormatJson
    \/ CompressJson
    \/ TreeItemClicked

SpecJson == Init /\ [][NextJson]_vars

TypeOK ==
    /\ input_cursor \in 0..Len(input_text)
    /\ output_cursor \in 0..Len(output_text)
    /\ Len(output_tree) <= 1
    /\ \A k \in Keys : index[k] \in Nat

(***************************************************************************)
(* Properties.                                                             *)
(***************************************************************************)
\* The handlers that end in process_json's populate_tree(data)
ProcessOps == {"auto_format_input", "open_file_ok", "format_json"}
\* The handlers that run auto_format_input
AutoOps == {"auto_format_input", "open_file_ok"}
\* The handlers of a search panel that end in goto when there is a match
GotoOps == {"do_search", "next_match", "prev_match"}

\* The value the root item of the tree was built from (its UserRole payload)
RootValue == output_tree[1].data.value

\* Some object key of v starts with "["
RECURSIVE HasBracketKey(_)
HasBracketKey(v) ==
    CASE v.t = "obj" -> \E i \in 1..Len(v.o) :
                            StartsWith(v.o[i].k, <<"[">>) \/ HasBracketKey(v.o[i].v)
      [] v.t = "arr" -> \E i \in 1..Len(v.a) : HasBracketKey(v.a[i])
      [] OTHER -> FALSE

\* C1: whenever the tree shows a value none of whose object keys starts with
\* "[", item_to_json of the root item gives back the value populate_tree
\* projected.
C1_RoundTrip ==
    (output_tree # <<>> /\ ~HasBracketKey(RootValue))
        => item_to_json(output_tree[1]) = RootValue

\* The children of a container value, in order
Children(v) ==
    CASE v.t = "obj" -> [i \in 1..Len(v.o) |-> v.o[i].v]
      [] v.t = "arr" -> v.a
      [] OTHER -> <<>>

\* No string child of a container inside v is JSON text
RECURSIVE FullyExpanded(_)
FullyExpanded(v) ==
    \A i \in 1..Len(Children(v)) :
        LET c == Children(v)[i] IN
        IF c.t = "str" THEN ~loads(c.s).ok ELSE FullyExpanded(c)

\* res is orig with, wherever a string child of orig parses to an object or
\* an array, a replacement that has no JSON text left in it
RECURSIVE ExpandedInside(_, _)
ExpandedInside(orig, res) ==
    \A i \in 1..Len(Children(orig)) :
        LET c == Children(orig)[i]
            d == Children(res)[i] IN
        IF c.t = "str"
        THEN (loads(c.s).ok /\ loads(c.s).val.t \in {"obj", "arr"}) => FullyExpanded(d)
        ELSE ExpandedInside(c, d)

\* C3: after process_json has rebuilt the tree from the input text, every
\* replacement object or array that parse_nested put in place of a string has
\* itself no string child left that is JSON text.
C3_ExpandsReplacement ==
    (last.op \in ProcessOps /\ output_tree # <<>>)
        => ExpandedInside(loads(strip(input_text)).val, RootValue)

\* C4: after process_json has rebuilt the tree, applying parse_nested to the
\* expanded value again changes nothing.
C4_Idempotent ==
    (last.op \in ProcessOps /\ output_tree # <<>>)
        => parse_nested(RootValue) = RootValue

\* ms lists, ascending, the non-overlapping left-to-right occurrences of the
\* pattern in text, occs being the set of offsets the pattern occurs at: each
\* entry is the first occurrence at or after the end of the one before.
IsGreedyScan(ms, text, patlen, occs) ==
    LET resume(i) == IF i = 1 THEN 0 ELSE ms[i - 1] + patlen
        stop      == IF ms = <<>> THEN 0 ELSE ms[Len(ms)] + patlen
    IN /\ \A i \in 1..Len(ms) :
            /\ ms[i] >= resume(i)
            /\ ms[i] \in occs
            /\ \A p \in resume(i)..(ms[i] - 1) : p \notin occs
       /\ \A p \in stop..Len(text) : p \notin occs

\* The pattern occurs in text at offset p, character for character
OccursExactly(text, pattern, p) ==
    /\ p + Len(pattern) <= Len(text)
    /\ SubSeq(text, p + 1, p + Len(pattern)) = pattern

\* The pattern occurs in text at offset p, letter case aside
OccursIgnoringCase(text, pattern, p) ==
    /\ p + Len(pattern) <= Len(text)
    /\ \A j \in 1..Len(pattern) :
          \/ text[p + j] = pattern[j]
          \/ {text[p + j], pattern[j]} = {"a", "A"}

\* next_match and prev_match on a panel with k >= 1 matches move index by one
\* modulo k: k calls of next_match come back to the index they started from,
\* and prev_match from index 0 gives k - 1.
NavigationWraps ==
    \A key \in Keys :
        LET k == Len(matches[key]) IN
        (last'.key = key /\ k >= 1) =>
            /\ last'.op = "next_match" =>
                  index'[key] = IF index[key] = k - 1 THEN 0 ELSE index[key] + 1
            /\ last'.op = "prev_match" =>
                  index'[key] = IF index[key] = 0 THEN k - 1 ELSE index[key] - 1

\* C2: after do_search with a non-empty pattern, matches holds exactly the
\* start offsets of the non-overlapping left-to-right occurrences of the
\* pattern in the buffer, each scan resuming at the end of the match before.
\* (The wraparound of next_match / prev_match is in ScanAndWrapApartFromCase.)
C2_ExactScan ==
    (last.op = "do_search" /\ search_text[last.key] # <<>>) =>
        LET T == Buffer(last.key)
            P == search_text[last.key]
        IN IsGreedyScan(matches[last.key], T, Len(P), {p \in 0..Len(T) : OccursExactly(T, P, p)})

\* Letter case aside (C14), the scan and the navigation are as C2 says: after
\* do_search with a non-empty pattern, matches is the greedy scan for the
\* occurrences of the pattern in the buffer compared without regard to letter
\* case; with k >= 1 matches next_match steps index forward modulo k and
\* prev_match steps it backward modulo k.
ScanAndWrapApartFromCase ==
    [][ /\ (last'.op = "do_search" /\ search_text'[last'.key] # <<>>) =>
              LET T == IF last'.key = "input" THEN input_text' ELSE output_text'
                  P == search_text'[last'.key]
              IN IsGreedyScan(matches'[last'.key], T, Len(P),
                              {p \in 0..Len(T) : OccursIgnoringCase(T, P, p)})
        /\ NavigationWraps ]_vars

\* C5: for every panel with a non-empty pattern, matches is what a scan of
\* the current buffer of its editor for the pattern gives.
C5_MatchesFollowBuffer ==
    \A key \in Keys :
        search_text[key] # <<>> =>
            matches[key] = find_loop(Buffer(key), search_text[key], 0)

\* C6: when do_search, next_match or prev_match has completed on a panel with
\* at least one match, the editor's extra selections are the current-line
\* marker at the current match, one range per match in ascending order, and
\* last the current-match range.
C6_LayeredHighlights ==
    (last.op \in GotoOps /\ matches[last.key] # <<>>) =>
        LET ms == matches[last.key]
            n  == Len(search_text[last.key])
            at == ms[index[last.key] + 1]
        IN extra[last.key] =
              <<Sel("line", at, 0)>>
              \o [i \in 1..Len(ms) |-> Sel("all", ms[i], n)]
              \o <<Sel("cur", at, n)>>

\* C7: after the close action of a panel its matches are empty and the
\* editor's extra selections hold nothing but the current-line marker.
C7_CloseClearsSession ==
    last.op = "close" =>
        /\ matches[last.key] = <<>>
        /\ \A i \in 1..Len(extra[last.key]) : extra[last.key][i].kind = "line"

\* C8 as stated: once do_search has run with an empty pattern, matches is
\* empty and the extra selections of the panel's editor are exactly one
\* current-line marker, on either editor.
C8_OnlyLineMarker ==
    (last.op = "do_search" /\ search_text[last.key] = <<>>) =>
        /\ matches[last.key] = <<>>
        /\ Len(extra[last.key]) = 1
        /\ extra[last.key][1].kind = "line"

\* C8 amended: while the pattern of a panel is empty, matches is empty, the
\* input editor's extra selections are exactly the current-line marker at its
\* cursor, and the read-only result view has no extra selection at all.
C8_EmptyPattern ==
    \A key \in Keys :
        search_text[key] = <<>> =>
            /\ matches[key] = <<>>
            /\ extra[key] = IF key = "input" THEN <<Sel("line", input_cursor, 0)>> ELSE <<>>

\* C8 witness: the pattern of both panels was emptied after a search that had
\* highlighted matches, the result view's last.
C8_Witness ==
    /\ last = Done("do_search", "output", FALSE)
    /\ search_text = [k \in Keys |-> <<>>]
    /\ input_text # <<>>
    /\ output_text # <<>>
    /\ index["input"] > 0

\* C9: when auto_format_input has run on an input text that is non-empty
\* after strip() and is not valid JSON, no dialog was raised and the tree and
\* the result view are empty.
C9_AutoFormatSwallowsError ==
    (last.op \in AutoOps /\ strip(input_text) # <<>> /\ ~loads(strip(input_text)).ok)
        => (~last.dialog /\ output_tree = <<>> /\ output_text = <<>>)

\* C9 witness: the input was edited into {"a":} .
C9_Witness ==
    /\ last.op = "auto_format_input"
    /\ input_text = <<"{", Q, "a", Q, ":", "}">>
    /\ output_tree = <<>>

\* C10: an open_file that is cancelled or fails leaves the input buffer, the
\* tree and the result view as they were.
C10_FailedOpenKeepsViews ==
    [][ last'.op \in {"open_file_fail", "open_file_cancel"}
            => UNCHANGED <<input_text, output_tree, output_text>> ]_vars

\* C10 witness: reading the file failed (the dialog is up) while the input
\* buffer and the views hold a document.
C10_Witness ==
    /\ last = Done("open_file_fail", "", TRUE)
    /\ input_text # <<>>
    /\ output_tree # <<>>
    /\ output_text # <<>>

\* The handlers that rebuild the tree: process_json's and compress_json
RebuildOps == ProcessOps \cup {"compress_json"}

\* C11: after any handler that has rebuilt the tree (automatic reformat, open,
\* format, compress), the tree is the projection of parse_nested applied to the
\* parsed input text, so compress and format build the same tree.
C11_TreeOfExpanded ==
    (last.op \in RebuildOps /\ ~last.dialog /\ output_tree # <<>>)
        => output_tree = <<populate_tree(parse_nested(loads(strip(input_text)).val), None)>>

\* The items of the tree
TreeItems ==
    IF output_tree = <<>> THEN {}
    ELSE { ItemAt(output_tree[1], path) : path \in ItemPaths(output_tree[1]) }

\* C12: item_to_json of every item projected from a non-empty array whose
\* elements hold no object gives back the array, element for element and
\* without the index labels.
C12_ArrayElements ==
    \A it \in TreeItems :
        (/\ ~it.data.tuple
         /\ it.data.value.t = "arr"
         /\ it.children # <<>>
         /\ \A i \in 1..Len(it.data.value.a) : it.data.value.a[i].t \in {"num", "str"})
            => item_to_json(it) = it.data.value

\* C13: item_to_json of every scalar leaf with payload (key, value) gives the
\* single-entry object {key: value} when the leaf has a key, the empty string
\* included, and the bare value when it has none.
C13_LeafRule ==
    \A it \in TreeItems :
        it.data.tuple =>
            item_to_json(it) = IF it.data.key.none
                               THEN it.data.value
                               ELSE JObj(<<Entry(it.data.key.s, it.data.value)>>)

\* v is an object {k: {k: w}}: one entry, whose value is an object with one
\* entry under the same key
IsSelfNested(v) ==
    /\ v.t = "obj" /\ Len(v.o) = 1
    /\ v.o[1].v.t = "obj" /\ Len(v.o[1].v.o) = 1
    /\ v.o[1].v.o[1].k = v.o[1].k

\* C18: item_to_json of every item projected from an object {k: {k: w}} with
\* a scalar w gives back {k: {k: w}}: the inner object is not unwrapped.
C18_KeepsNesting ==
    \A it \in TreeItems :
        (/\ ~it.data.tuple
         /\ IsSelfNested(it.data.value)
         /\ it.data.value.o[1].v.o[1].v.t \in {"num", "str"})
            => item_to_json(it) = it.data.value

\* C14: after do_search with a non-empty pattern, every offset in matches is
\* the start of an occurrence that equals the pattern character for character.
C14_CaseSensitive ==
    (last.op = "do_search" /\ search_text[last.key] # <<>>) =>
        \A i \in 1..Len(matches[last.key]) :
            OccursExactly(Buffer(last.key), search_text[last.key], matches[last.key][i])

\* A panel with matches has its index on one of them
IndexInRange ==
    \A key \in Keys :
        matches[key] # <<>> => index[key] \in 0..(Len(matches[key]) - 1)

\* A do_search that found a match has put the index on the first one
SearchResetsIndex ==
    (last.op = "do_search" /\ matches[last.key] # <<>>) => index[last.key] = 0

\* next_match and prev_match on a panel without matches leave its index and
\* the extra selections of its editor as they were
EmptyNavigationKeeps ==
    \A key \in Keys :
        (last'.op \in {"next_match", "prev_match"} /\ last'.key = key /\ matches[key] = <<>>)
            => (index'[key] = index[key] /\ extra'[key] = extra[key])

\* C15: in every reachable state a panel with matches has 0 <= index <
\* len(matches); every do_search that finds a match sets index to 0;
\* next_match and prev_match with empty matches change neither the index nor
\* the extra selections.
C15_IndexInvariants ==
    IndexInRange /\ [][IndexInRange' /\ SearchResetsIndex' /\ EmptyNavigationKeeps]_vars

\* C15 witness: prev_match has wrapped from the first of three matches to the
\* last one.
C15_Witness ==
    /\ last.op = "prev_match"
    /\ Len(matches[last.key]) = 3
    /\ index[last.key] = 2

\* C16: in every reachable state the extra selections of the input editor
\* contain the current-line marker.
C16_InputHasLineMarker ==
    \E i \in 1..Len(extra["input"]) : extra["input"][i].kind = "line"

\* C17: when do_search, next_match or prev_match has run goto, the
\* current-match range of the installed list has the start and the length of
\* one of the all-match ranges of the same list.
C17_CurrentAmongAll ==
    (last.op \in GotoOps /\ matches[last.key] # <<>>) =>
        \A i \in 1..Len(extra[last.key]) :
            extra[last.key][i].kind = "cur" =>
                \E j \in 1..Len(extra[last.key]) :
                    /\ extra[last.key][j].kind = "all"
                    /\ extra[last.key][j].start = extra[last.key][i].start
                    /\ extra[last.key][j].len = extra[last.key][i].len

\* With matches that are the scan of the current buffer (no stale session,
\* C5), the current-match range is one of the all-match ranges.
CurrentAmongAllWhenFresh ==
    (/\ last.op \in GotoOps /\ matches[last.key] # <<>>
     /\ matches[last.key] = find_loop(Buffer(last.key), search_text[last.key], 0))
        => \A i \in 1..Len(extra[last.key]) :
              extra[last.key][i].kind = "cur" =>
                  \E j \in 1..Len(extra[last.key]) :
                      /\ extra[last.key][j].kind = "all"
                      /\ extra[last.key][j].start = extra[last.key][i].start
                      /\ extra[last.key][j].len = extra[last.key][i].len

====
